---- MODULE Spec2Model ----
(***************************************************************************)
(* lspserver/simpleclient, main.go: one websocket session (handleWs) that  *)
(* bridges the transport to the standard streams of one child process.     *)
(* Activities: the coordinator (handleWs, which runs pumpStdin inline),    *)
(* pumpStdout and ping (goroutines), and the environment: the remote peer  *)
(* and the child process.  Time is in seconds.                             *)
(***************************************************************************)
EXTENDS Integers, Sequences, FiniteSets, TLC

\* ---------------------------------------------------------------- constants
closeGracePeriod == 10
pongWait == 60
pingPeriod == (pongWait * 9) \div 10
killGrace == 1

\* ---------------------------------------------------------------- bounds
\* the text messages the peer sends and the writes another program makes, in all
MaxData == 2
\* the bytes the stdin pipe holds
StdinCap == 1
\* the bytes the scanner buffers at most while it looks for the end of a line
MaxScanTokenSize == 4

LF == "\n"
CR == "\r"
\* the value of a timer that is not set
NoTime == 0 - 1

\* the commands cmdPath may name: an echoing filter, and any other program
Commands == {"cat", "other"}
\* the payloads the peer sends as text messages
Messages == {<<"a">>, <<"b">>}
\* what another program may write to its output in one write: a line, a
\* line ended by CR LF, and bytes with no line feed
OutChunks == {<<"a", LF>>, <<"b", CR, LF>>, <<"c", "c">>}

IntErrMsg == <<"Internal server error.">>
TextFrame(d) == [t |-> "text", d |-> d]
CloseFrame == [t |-> "close", d |-> <<>>]
PongFrame == [t |-> "pong", d |-> <<>>]

VARIABLES
  cmd,          \* cmdPath
  pcH,          \* handleWs: where the coordinator is
  pcOut,        \* pumpStdout
  pcPing,       \* ping
  pcIn,         \* pumpStdin
  fds,          \* the pipe ends open in the parent, of outr outw inr inw
  wsClosedBy,   \* who has called ws.Close(): "out", "in", "h"
  peerGone,     \* the peer closed or dropped the connection
  inbox,        \* frames the peer sent that ReadMessage has not consumed
  nSent,        \* how many text messages the peer has sent
  sent,         \* frames written to the transport with a nil error
  pongDue,      \* a ping was written and the peer has not answered it
  doneCloses,   \* how many times close(stdoutDone) ran
  proc,         \* the child: "none", "alive", "dead"
  catBuf,       \* cat: bytes read from stdin and not yet written
  outAll,       \* every byte the child wrote to its output pipe
  nOut,         \* how many writes another program has made
  outRead,      \* how many of them the scanner has consumed
  tok,          \* s.Bytes(): the token pumpStdout is forwarding
  inAll,        \* every byte written to the stdin pipe
  inRead,       \* how many of them the child has consumed
  wbuf,         \* pumpStdin: what w.Write has still to write
  msgsRead,     \* the messages ReadMessage returned to pumpStdin
  readLeft,     \* the time left until the transport's read deadline
  readLate,     \* time went on past the read deadline with pumpStdin running
  pingLeft,     \* the time left until ticker.C fires
  graceLeft,    \* the time left until time.After(time.Second) fires
  lingerLeft,   \* the time left of time.Sleep(closeGracePeriod)
  signals,      \* the signals proc.Signal was called with, in order
  waitCalls,    \* how many times proc.Wait was called
  failed,       \* what internalError logged: "", "stdout:", "stdin:", "start:"
  outErr,       \* pumpStdout's return value ("" is nil, "-" not returned)
  inErr,        \* pumpStdin's return value
  pingErr,      \* ping's return value
  warned        \* the warnings handleWs logged: "inter:", "term:", "wait:"

vars == <<cmd, pcH, pcOut, pcPing, pcIn, fds, wsClosedBy, peerGone, inbox,
          nSent, sent, pongDue, doneCloses, proc, catBuf, outAll, nOut,
          outRead, tok, inAll, inRead, wbuf, msgsRead, readLeft, readLate, pingLeft,
          graceLeft, lingerLeft, signals, waitCalls, failed, outErr, inErr,
          pingErr, warned>>

\* ---------------------------------------------------------------- helpers
Min(S) == CHOOSE x \in S : \A y \in S : x <= y

IsPrefix(s, t) == Len(s) <= Len(t) /\ SubSeq(t, 1, Len(s)) = s

wsClosed == wsClosedBy # {}

\* bufio's dropCR: a trailing carriage return is not part of the line
dropCR(d) ==
  IF Len(d) > 0 /\ d[Len(d)] = CR THEN SubSeq(d, 1, Len(d) - 1) ELSE d

\* the position of the first line feed of d, 0 when it has none
IndexLF(d) ==
  IF \E i \in 1..Len(d) : d[i] = LF
  THEN Min({i \in 1..Len(d) : d[i] = LF})
  ELSE 0

\* bufio.ScanLines on the buffered data d: how far to advance and the token,
\* adv = 0 when it asks for more data
ScanLines(d, atEOF) ==
  IF IndexLF(d) > 0
  THEN [adv |-> IndexLF(d), tok |-> dropCR(SubSeq(d, 1, IndexLF(d) - 1))]
  ELSE IF atEOF /\ Len(d) > 0
       THEN [adv |-> Len(d), tok |-> dropCR(d)]
       ELSE [adv |-> 0, tok |-> <<>>]

\* the tokens the scanner yields for the whole stream d, read to its end
RECURSIVE Tokens(_)
Tokens(d) ==
  IF Len(d) = 0 THEN <<>>
  ELSE LET r == ScanLines(d, TRUE)
       IN <<r.tok>> \o Tokens(SubSeq(d, r.adv + 1, Len(d)))

\* the delimiter-terminated lines of d: an unterminated rest is left out
RECURSIVE Lines(_)
Lines(d) ==
  IF IndexLF(d) = 0 THEN <<>>
  ELSE <<SubSeq(d, 1, IndexLF(d) - 1)>> \o Lines(SubSeq(d, IndexLF(d) + 1, Len(d)))

\* each message followed by one line terminator
RECURSIVE Terminated(_)
Terminated(ms) ==
  IF Len(ms) = 0 THEN <<>>
  ELSE Head(ms) \o <<LF>> \o Terminated(Tail(ms))

\* the text frames among fs, as payloads
RECURSIVE TextOf(_)
TextOf(fs) ==
  IF Len(fs) = 0 THEN <<>>
  ELSE (IF Head(fs).t = "text" THEN <<Head(fs).d>> ELSE <<>>) \o TextOf(Tail(fs))

\* the unread contents of the two pipes
outBuf == SubSeq(outAll, outRead + 1, Len(outAll))
inBuf == SubSeq(inAll, inRead + 1, Len(inAll))

\* what the scanner has buffered of the output pipe, and whether that is all
\* there will be
scanBuf ==
  IF Len(outBuf) <= MaxScanTokenSize THEN outBuf ELSE SubSeq(outBuf, 1, MaxScanTokenSize)

\* the write ends of the output pipe still open: the child's (its stdout and
\* stderr) while it lives, the parent's until it closes outw
outWriters == (IF proc = "alive" THEN {"child"} ELSE {}) \cup (fds \cap {"outw"})
\* the read ends of the stdin pipe still open
inReaders == (IF proc = "alive" THEN {"child"} ELSE {}) \cup (fds \cap {"inr"})

outEOF == outWriters = {}

Init ==
  /\ cmd \in Commands
  /\ pcH = "pipeOut"
  /\ pcOut = "idle"
  /\ pcPing = "idle"
  /\ pcIn = "idle"
  /\ fds = {}
  /\ wsClosedBy = {}
  /\ peerGone = FALSE
  /\ inbox = <<>>
  /\ nSent = 0
  /\ sent = <<>>
  /\ pongDue = FALSE
  /\ doneCloses = 0
  /\ proc = "none"
  /\ catBuf = <<>>
  /\ outAll = <<>>
  /\ nOut = 0
  /\ outRead = 0
  /\ tok = <<>>
  /\ inAll = <<>>
  /\ inRead = 0
  /\ wbuf = <<>>
  /\ msgsRead = <<>>
  /\ readLeft = NoTime
  /\ readLate = FALSE
  /\ pingLeft = NoTime
  /\ graceLeft = NoTime
  /\ lingerLeft = NoTime
  /\ signals = <<>>
  /\ waitCalls = 0
  /\ failed = ""
  /\ outErr = "-"
  /\ inErr = "-"
  /\ pingErr = "-"
  /\ warned = {}

\* ---------------------------------------------------------------- transport
\* the results a write to the transport can have: it fails once the
\* connection was closed on this side, and may fail once the peer is gone
WriteResults ==
  (IF wsClosed THEN {} ELSE {TRUE}) \cup (IF wsClosed \/ peerGone THEN {FALSE} ELSE {})

\* internalError: log the message, write the text message, ignore its error
internalError(msg, ok) ==
  /\ failed' = msg
  /\ sent' = IF ok THEN Append(sent, TextFrame(IntErrMsg)) ELSE sent

\* what the child is left as when sig is delivered to it: kill ends it, the
\* interrupt ends cat, and another program may handle or ignore it
SignalResults(sig) ==
  IF proc # "alive" THEN {proc}
  ELSE IF sig = "kill" \/ cmd = "cat" THEN {"dead"}
  ELSE {"alive", "dead"}

\* ---------------------------------------------------------------- handleWs
\* outr, outw, err := os.Pipe(); on an error internalError and return, which
\* runs the one deferred call so far, ws.Close()
PipeOut ==
  /\ pcH = "pipeOut"
  /\ \E created \in BOOLEAN :
       IF created
       THEN /\ fds' = fds \cup {"outr", "outw"}
            /\ pcH' = "pipeIn"
            /\ UNCHANGED <<failed, sent, wsClosedBy>>
       ELSE /\ \E ok \in WriteResults : internalError("stdout:", ok)
            /\ wsClosedBy' = wsClosedBy \cup {"h"}
            /\ pcH' = "returned"
            /\ UNCHANGED fds
  /\ UNCHANGED <<cmd, warned, pcOut, pcPing, pcIn, peerGone, inbox, nSent, pongDue,
                 doneCloses, proc, catBuf, outAll, nOut, outRead, tok, inAll, inRead,
                 wbuf, msgsRead, readLeft, readLate, pingLeft, graceLeft, lingerLeft,
                 signals, waitCalls, outErr, inErr, pingErr>>

\* inr, inw, err := os.Pipe(); on an error the deferred calls close outw,
\* outr and the transport
PipeIn ==
  /\ pcH = "pipeIn"
  /\ \E created \in BOOLEAN :
       IF created
       THEN /\ fds' = fds \cup {"inr", "inw"}
            /\ pcH' = "start"
            /\ UNCHANGED <<failed, sent, wsClosedBy>>
       ELSE /\ \E ok \in WriteResults : internalError("stdin:", ok)
            /\ fds' = {}
            /\ wsClosedBy' = wsClosedBy \cup {"h"}
            /\ pcH' = "returned"
  /\ UNCHANGED <<cmd, warned, pcOut, pcPing, pcIn, peerGone, inbox, nSent, pongDue,
                 doneCloses, proc, catBuf, outAll, nOut, outRead, tok, inAll, inRead,
                 wbuf, msgsRead, readLeft, readLate, pingLeft, graceLeft, lingerLeft,
                 signals, waitCalls, outErr, inErr, pingErr>>

\* StartProcess without the return after internalError
StartProcess_NoReturn ==
  /\ pcH = "start"
  /\ \E started \in BOOLEAN :
       IF started
       THEN /\ proc' = "alive"
            /\ pcH' = "closeEnds"
            /\ UNCHANGED <<failed, sent, wsClosedBy, fds>>
       ELSE /\ \E ok \in WriteResults : internalError("start:", ok)
            /\ pcH' = "closeEnds"
            /\ UNCHANGED <<proc, fds, wsClosedBy>>
  /\ UNCHANGED <<cmd, warned, pcOut, pcPing, pcIn, peerGone, inbox, nSent, pongDue,
                 doneCloses, catBuf, outAll, nOut, outRead, tok, inAll, inRead,
                 wbuf, msgsRead, readLeft, readLate, pingLeft, graceLeft, lingerLeft,
                 signals, waitCalls, outErr, inErr, pingErr>>

\* proc, err := os.StartProcess(cmdPath, ..., Files: inr, outw, outw)
StartProcess ==
  /\ pcH = "start"
  /\ \E started \in BOOLEAN :
       IF started
       THEN /\ proc' = "alive"
            /\ pcH' = "closeEnds"
            /\ UNCHANGED <<failed, sent, wsClosedBy, fds>>
       ELSE /\ \E ok \in WriteResults : internalError("start:", ok)
            /\ fds' = {}
            /\ wsClosedBy' = wsClosedBy \cup {"h"}
            /\ pcH' = "returned"
            /\ UNCHANGED proc
  /\ UNCHANGED <<cmd, warned, pcOut, pcPing, pcIn, peerGone, inbox, nSent, pongDue,
                 doneCloses, catBuf, outAll, nOut, outRead, tok, inAll, inRead,
                 wbuf, msgsRead, readLeft, readLate, pingLeft, graceLeft, lingerLeft,
                 signals, waitCalls, outErr, inErr, pingErr>>

\* CloseChildEnds without outw.Close(): the parent keeps its write end
CloseChildEnds_OutwKept ==
  /\ pcH = "closeEnds"
  /\ fds' = fds \ {"inr"}
  /\ pcH' = "go"
  /\ UNCHANGED <<cmd, warned, pcOut, pcPing, pcIn, wsClosedBy, peerGone, inbox,
                 nSent, sent, pongDue, doneCloses, proc, catBuf, outAll, nOut, outRead,
                 tok, inAll, inRead, wbuf, msgsRead, readLeft, readLate, pingLeft,
                 graceLeft, lingerLeft, signals, waitCalls, failed, outErr, inErr,
                 pingErr>>

\* _ = inr.Close(); _ = outw.Close()
CloseChildEnds ==
  /\ pcH = "closeEnds"
  /\ fds' = fds \ {"inr", "outw"}
  /\ pcH' = "go"
  /\ UNCHANGED <<cmd, warned, pcOut, pcPing, pcIn, wsClosedBy, peerGone, inbox,
                 nSent, sent, pongDue, doneCloses, proc, catBuf, outAll, nOut, outRead,
                 tok, inAll, inRead, wbuf, msgsRead, readLeft, readLate, pingLeft,
                 graceLeft, lingerLeft, signals, waitCalls, failed, outErr, inErr,
                 pingErr>>

\* stdoutDone := make(chan struct{}); go pumpStdout; go ping; call pumpStdin
GoPumps ==
  /\ pcH = "go"
  /\ pcOut' = "scan"
  /\ pcPing' = "start"
  /\ pcIn' = "init"
  /\ pcH' = "pumpStdin"
  /\ UNCHANGED <<cmd, warned, fds, wsClosedBy, peerGone, inbox, nSent, sent,
                 pongDue, doneCloses, proc, catBuf, outAll, nOut, outRead, tok, inAll,
                 inRead, wbuf, msgsRead, readLeft, readLate, pingLeft, graceLeft,
                 lingerLeft, signals, waitCalls, failed, outErr, inErr, pingErr>>

\* pumpStdin has returned: _ = inw.Close()
CloseInw ==
  /\ pcH = "pumpStdin"
  /\ pcIn = "returned"
  /\ fds' = fds \ {"inw"}
  /\ pcH' = "interrupt"
  /\ UNCHANGED <<cmd, warned, pcOut, pcPing, pcIn, wsClosedBy, peerGone, inbox,
                 nSent, sent, pongDue, doneCloses, proc, catBuf, outAll, nOut, outRead,
                 tok, inAll, inRead, wbuf, msgsRead, readLeft, readLate, pingLeft,
                 graceLeft, lingerLeft, signals, waitCalls, failed, outErr, inErr,
                 pingErr>>

\* Interrupt with the signal sent only to a child that has not yet exited
Interrupt_OnlyIfAlive ==
  /\ pcH = "interrupt"
  /\ signals' = IF proc = "alive" THEN Append(signals, "int") ELSE signals
  /\ \E delivered \in BOOLEAN :
       IF delivered
       THEN /\ \E p \in SignalResults("int") : proc' = p
            /\ UNCHANGED warned
       ELSE /\ warned' = IF proc = "alive" THEN warned \cup {"inter:"} ELSE warned
            /\ UNCHANGED proc
  /\ graceLeft' = killGrace
  /\ pcH' = "select"
  /\ UNCHANGED <<cmd, pcOut, pcPing, pcIn, fds, wsClosedBy, peerGone,
                 inbox, nSent, sent, pongDue, doneCloses, catBuf, outAll, nOut,
                 outRead, tok, inAll, inRead, wbuf, msgsRead, readLeft, readLate,
                 pingLeft, lingerLeft, waitCalls, failed, outErr, inErr, pingErr>>

\* proc.Signal(os.Interrupt): an error is logged and nothing else; then the
\* select is entered and its timer set
Interrupt ==
  /\ pcH = "interrupt"
  /\ signals' = Append(signals, "int")
  /\ \E delivered \in BOOLEAN :
       IF delivered
       THEN /\ \E p \in SignalResults("int") : proc' = p
            /\ UNCHANGED warned
       ELSE /\ warned' = warned \cup {"inter:"}
            /\ UNCHANGED proc
  /\ graceLeft' = killGrace
  /\ pcH' = "select"
  /\ UNCHANGED <<cmd, pcOut, pcPing, pcIn, fds, wsClosedBy, peerGone,
                 inbox, nSent, sent, pongDue, doneCloses, catBuf, outAll, nOut,
                 outRead, tok, inAll, inRead, wbuf, msgsRead, readLeft, readLate,
                 pingLeft, lingerLeft, waitCalls, failed, outErr, inErr, pingErr>>

\* case <-stdoutDone:
SelectDone ==
  /\ pcH = "select"
  /\ doneCloses > 0
  /\ pcH' = "wait"
  /\ graceLeft' = NoTime
  /\ UNCHANGED <<cmd, warned, pcOut, pcPing, pcIn, fds, wsClosedBy, peerGone,
                 inbox, nSent, sent, pongDue, doneCloses, proc, catBuf, outAll, nOut,
                 outRead, tok, inAll, inRead, wbuf, msgsRead, readLeft, readLate,
                 pingLeft, lingerLeft, signals, waitCalls, failed,
                 outErr, inErr, pingErr>>

\* SelectTimeout with the kill sent without the wait for time.After
SelectTimeout_NoGrace ==
  /\ pcH = "select"
  /\ signals' = Append(signals, "kill")
  /\ \E delivered \in BOOLEAN :
       IF delivered
       THEN /\ \E p \in SignalResults("kill") : proc' = p
            /\ UNCHANGED warned
       ELSE /\ warned' = warned \cup {"term:"}
            /\ UNCHANGED proc
  /\ pcH' = "waitDone"
  /\ UNCHANGED <<cmd, pcOut, pcPing, pcIn, fds, wsClosedBy, peerGone,
                 inbox, nSent, sent, pongDue, doneCloses, catBuf, outAll, nOut,
                 outRead, tok, inAll, inRead, wbuf, msgsRead, readLeft, readLate,
                 pingLeft, graceLeft, lingerLeft, waitCalls, failed, outErr,
                 inErr, pingErr>>

\* case <-time.After(time.Second): proc.Signal(os.Kill): an error is logged
\* and nothing else
SelectTimeout ==
  /\ pcH = "select"
  /\ graceLeft = 0
  /\ signals' = Append(signals, "kill")
  /\ \E delivered \in BOOLEAN :
       IF delivered
       THEN /\ \E p \in SignalResults("kill") : proc' = p
            /\ UNCHANGED warned
       ELSE /\ warned' = warned \cup {"term:"}
            /\ UNCHANGED proc
  /\ pcH' = "waitDone"
  /\ UNCHANGED <<cmd, pcOut, pcPing, pcIn, fds, wsClosedBy, peerGone,
                 inbox, nSent, sent, pongDue, doneCloses, catBuf, outAll, nOut,
                 outRead, tok, inAll, inRead, wbuf, msgsRead, readLeft, readLate,
                 pingLeft, graceLeft, lingerLeft, waitCalls, failed, outErr,
                 inErr, pingErr>>

\* WaitDone without the receive from stdoutDone after the kill
WaitDone_NoWait ==
  /\ pcH = "waitDone"
  /\ pcH' = "wait"
  /\ UNCHANGED <<cmd, warned, pcOut, pcPing, pcIn, fds, wsClosedBy, peerGone,
                 inbox, nSent, sent, pongDue, doneCloses, proc, catBuf, outAll, nOut,
                 outRead, tok, inAll, inRead, wbuf, msgsRead, readLeft, readLate,
                 pingLeft, graceLeft, lingerLeft, signals, waitCalls, failed,
                 outErr, inErr, pingErr>>

\* <-stdoutDone, after the kill
WaitDone ==
  /\ pcH = "waitDone"
  /\ doneCloses > 0
  /\ pcH' = "wait"
  /\ UNCHANGED <<cmd, warned, pcOut, pcPing, pcIn, fds, wsClosedBy, peerGone,
                 inbox, nSent, sent, pongDue, doneCloses, proc, catBuf, outAll, nOut,
                 outRead, tok, inAll, inRead, wbuf, msgsRead, readLeft, readLate,
                 pingLeft, graceLeft, lingerLeft, signals, waitCalls, failed,
                 outErr, inErr, pingErr>>

\* proc.Wait(): returns once the child has exited; an error is logged and
\* nothing else
Wait ==
  /\ pcH = "wait"
  /\ proc = "dead"
  /\ waitCalls' = waitCalls + 1
  /\ \E waited \in BOOLEAN :
       warned' = IF waited THEN warned ELSE warned \cup {"wait:"}
  /\ pcH' = "return"
  /\ UNCHANGED <<cmd, pcOut, pcPing, pcIn, fds, wsClosedBy, peerGone,
                 inbox, nSent, sent, pongDue, doneCloses, proc, catBuf, outAll, nOut,
                 outRead, tok, inAll, inRead, wbuf, msgsRead, readLeft, readLate,
                 pingLeft, graceLeft, lingerLeft, signals, failed, outErr, inErr,
                 pingErr>>

\* handleWs returns: the deferred calls close inw, inr, outw, outr and ws
Return ==
  /\ pcH = "return"
  /\ fds' = {}
  /\ wsClosedBy' = wsClosedBy \cup {"h"}
  /\ pcH' = "returned"
  /\ UNCHANGED <<cmd, warned, pcOut, pcPing, pcIn, peerGone, inbox, nSent, sent,
                 pongDue, doneCloses, proc, catBuf, outAll, nOut, outRead, tok, inAll,
                 inRead, wbuf, msgsRead, readLeft, readLate, pingLeft, graceLeft,
                 lingerLeft, signals, waitCalls, failed, outErr, inErr, pingErr>>

\* ---------------------------------------------------------------- pumpStdout
\* s.Scan() returns true: a token is ready in s.Bytes()
OutScan ==
  /\ pcOut = "scan"
  /\ LET r == ScanLines(scanBuf, outEOF /\ scanBuf = outBuf)
     IN /\ r.adv > 0
        /\ tok' = r.tok
        /\ outRead' = outRead + r.adv
  /\ pcOut' = "write"
  /\ UNCHANGED <<cmd, warned, pcH, pcPing, pcIn, fds, wsClosedBy, peerGone, inbox,
                 nSent, sent, pongDue, doneCloses, proc, catBuf, outAll, nOut, inAll,
                 inRead, wbuf, msgsRead, readLeft, readLate, pingLeft, graceLeft,
                 lingerLeft, signals, waitCalls, failed, outErr, inErr, pingErr>>

\* s.Scan() returns false at the end of the stream and s.Err() is nil:
\* close(done)
OutScanEOF ==
  /\ pcOut = "scan"
  /\ outEOF
  /\ Len(outBuf) = 0
  /\ doneCloses' = doneCloses + 1
  /\ pcOut' = "closeFrame"
  /\ UNCHANGED <<cmd, warned, pcH, pcPing, pcIn, fds, wsClosedBy, peerGone, inbox,
                 nSent, sent, pongDue, proc, catBuf, outAll, nOut, outRead, tok, inAll,
                 inRead, wbuf, msgsRead, readLeft, readLate, pingLeft, graceLeft,
                 lingerLeft, signals, waitCalls, failed, outErr, inErr, pingErr>>

\* OutScanErr without the check of s.Err(): the scan error falls through to
\* close(done)
OutScanErr_ErrNotChecked ==
  /\ pcOut = "scan"
  /\ Len(scanBuf) = MaxScanTokenSize
  /\ IndexLF(scanBuf) = 0
  /\ doneCloses' = doneCloses + 1
  /\ pcOut' = "closeFrame"
  /\ UNCHANGED <<cmd, warned, outErr, wsClosedBy, pcH, pcPing, pcIn, fds, peerGone, inbox, nSent, sent,
                 pongDue, proc, catBuf, outAll, nOut, outRead, tok, inAll,
                 inRead, wbuf, msgsRead, readLeft, readLate, pingLeft, graceLeft,
                 lingerLeft, signals, waitCalls, failed, inErr, pingErr>>

\* s.Scan() returns false and s.Err() is not nil (the buffer is full and
\* holds no end of a line: bufio.ErrTooLong): return the error; the deferred
\* ws.Close() runs
OutScanErr ==
  /\ pcOut = "scan"
  /\ Len(scanBuf) = MaxScanTokenSize
  /\ IndexLF(scanBuf) = 0
  /\ outErr' = "failed to scan"
  /\ wsClosedBy' = wsClosedBy \cup {"out"}
  /\ pcOut' = "returned"
  /\ UNCHANGED <<cmd, warned, pcH, pcPing, pcIn, fds, peerGone, inbox, nSent, sent,
                 pongDue, doneCloses, proc, catBuf, outAll, nOut, outRead, tok, inAll,
                 inRead, wbuf, msgsRead, readLeft, readLate, pingLeft, graceLeft,
                 lingerLeft, signals, waitCalls, failed, inErr, pingErr>>

\* OutWrite with close(done) run on the error return as well
OutWrite_DoneOnError ==
  /\ pcOut = "write"
  /\ \E ok \in WriteResults :
       IF ok
       THEN /\ sent' = Append(sent, TextFrame(tok))
            /\ pcOut' = "scan"
            /\ UNCHANGED <<outErr, wsClosedBy, doneCloses>>
       ELSE /\ outErr' = "failed to write message"
            /\ doneCloses' = doneCloses + 1
            /\ wsClosedBy' = wsClosedBy \cup {"out"}
            /\ pcOut' = "returned"
            /\ UNCHANGED sent
  /\ UNCHANGED <<cmd, warned, pcH, pcPing, pcIn, fds, peerGone, inbox, nSent,
                 pongDue, proc, catBuf, outAll, nOut, outRead, tok, inAll,
                 inRead, wbuf, msgsRead, readLeft, readLate, pingLeft, graceLeft,
                 lingerLeft, signals, waitCalls, failed, inErr, pingErr>>

\* OutWrite with the error of ws.WriteMessage logged and the loop going on
OutWrite_ErrIgnored ==
  /\ pcOut = "write"
  /\ \E ok \in WriteResults :
       IF ok
       THEN /\ sent' = Append(sent, TextFrame(tok))
            /\ pcOut' = "scan"
            /\ UNCHANGED <<outErr, wsClosedBy>>
       ELSE /\ pcOut' = "scan"
            /\ UNCHANGED <<sent, outErr, wsClosedBy>>
  /\ UNCHANGED <<cmd, warned, pcH, pcPing, pcIn, fds, peerGone, inbox, nSent,
                 pongDue, doneCloses, proc, catBuf, outAll, nOut, outRead, tok, inAll,
                 inRead, wbuf, msgsRead, readLeft, readLate, pingLeft, graceLeft,
                 lingerLeft, signals, waitCalls, failed, inErr, pingErr>>

\* ws.SetWriteDeadline and ws.WriteMessage(websocket.TextMessage, s.Bytes());
\* on an error return it, and the deferred ws.Close() runs
OutWrite ==
  /\ pcOut = "write"
  /\ \E ok \in WriteResults :
       IF ok
       THEN /\ sent' = Append(sent, TextFrame(tok))
            /\ pcOut' = "scan"
            /\ UNCHANGED <<outErr, wsClosedBy>>
       ELSE /\ outErr' = "failed to write message"
            /\ wsClosedBy' = wsClosedBy \cup {"out"}
            /\ pcOut' = "returned"
            /\ UNCHANGED sent
  /\ UNCHANGED <<cmd, warned, pcH, pcPing, pcIn, fds, peerGone, inbox, nSent,
                 pongDue, doneCloses, proc, catBuf, outAll, nOut, outRead, tok, inAll,
                 inRead, wbuf, msgsRead, readLeft, readLate, pingLeft, graceLeft,
                 lingerLeft, signals, waitCalls, failed, inErr, pingErr>>

\* after close(done): ws.SetWriteDeadline and ws.WriteMessage of the close
\* message; on an error return it, else start time.Sleep(closeGracePeriod)
OutCloseFrame ==
  /\ pcOut = "closeFrame"
  /\ \E ok \in WriteResults :
       IF ok
       THEN /\ sent' = Append(sent, CloseFrame)
            /\ lingerLeft' = closeGracePeriod
            /\ pcOut' = "linger"
            /\ UNCHANGED <<outErr, wsClosedBy>>
       ELSE /\ outErr' = "failed to write message"
            /\ wsClosedBy' = wsClosedBy \cup {"out"}
            /\ pcOut' = "returned"
            /\ UNCHANGED <<sent, lingerLeft>>
  /\ UNCHANGED <<cmd, warned, pcH, pcPing, pcIn, fds, peerGone, inbox, nSent,
                 pongDue, doneCloses, proc, catBuf, outAll, nOut, outRead, tok, inAll,
                 inRead, wbuf, msgsRead, readLeft, readLate, pingLeft, graceLeft,
                 signals, waitCalls, failed, inErr, pingErr>>

\* OutLingerEnd without time.Sleep(closeGracePeriod) before the return
OutLingerEnd_NoSleep ==
  /\ pcOut = "linger"
  /\ outErr' = ""
  /\ wsClosedBy' = wsClosedBy \cup {"out"}
  /\ pcOut' = "returned"
  /\ UNCHANGED <<cmd, warned, pcH, pcPing, pcIn, fds, peerGone, inbox, nSent, sent,
                 pongDue, doneCloses, proc, catBuf, outAll, nOut, outRead, tok, inAll,
                 inRead, wbuf, msgsRead, readLeft, readLate, pingLeft, graceLeft,
                 lingerLeft, signals, waitCalls, failed, inErr, pingErr>>

\* OutLingerEnd with a deferred close(done) added to pumpStdout beside the
\* close(done) of the clean path
OutLingerEnd_DeferredClose ==
  /\ pcOut = "linger"
  /\ lingerLeft = 0
  /\ outErr' = ""
  /\ doneCloses' = doneCloses + 1
  /\ wsClosedBy' = wsClosedBy \cup {"out"}
  /\ pcOut' = "returned"
  /\ UNCHANGED <<cmd, warned, pcH, pcPing, pcIn, fds, peerGone, inbox, nSent, sent,
                 pongDue, proc, catBuf, outAll, nOut, outRead, tok, inAll,
                 inRead, wbuf, msgsRead, readLeft, readLate, pingLeft, graceLeft,
                 lingerLeft, signals, waitCalls, failed, inErr, pingErr>>

\* time.Sleep(closeGracePeriod) is over: return nil; the deferred ws.Close()
OutLingerEnd ==
  /\ pcOut = "linger"
  /\ lingerLeft = 0
  /\ outErr' = ""
  /\ wsClosedBy' = wsClosedBy \cup {"out"}
  /\ pcOut' = "returned"
  /\ UNCHANGED <<cmd, warned, pcH, pcPing, pcIn, fds, peerGone, inbox, nSent, sent,
                 pongDue, doneCloses, proc, catBuf, outAll, nOut, outRead, tok, inAll,
                 inRead, wbuf, msgsRead, readLeft, readLate, pingLeft, graceLeft,
                 lingerLeft, signals, waitCalls, failed, inErr, pingErr>>

\* ---------------------------------------------------------------- ping
\* ticker := time.NewTicker(pingPeriod)
PingStart ==
  /\ pcPing = "start"
  /\ pingLeft' = pingPeriod
  /\ pcPing' = "select"
  /\ UNCHANGED <<cmd, warned, pcH, pcOut, pcIn, fds, wsClosedBy, peerGone, inbox,
                 nSent, sent, pongDue, doneCloses, proc, catBuf, outAll, nOut, outRead,
                 tok, inAll, inRead, wbuf, msgsRead, readLeft, readLate, graceLeft,
                 lingerLeft, signals, waitCalls, failed, outErr, inErr, pingErr>>

\* PingTick with a deferred ws.Close() in ping, as the pumps have
PingTick_DeferredClose ==
  /\ pcPing = "select"
  /\ pingLeft = 0
  /\ \E ok \in WriteResults :
       IF ok
       THEN /\ pongDue' = ~peerGone
            /\ pingLeft' = pingPeriod
            /\ UNCHANGED <<pcPing, pingErr, wsClosedBy>>
       ELSE /\ pingErr' = "failed to write control"
            /\ wsClosedBy' = wsClosedBy \cup {"ping"}
            /\ pcPing' = "returned"
            /\ pingLeft' = NoTime
            /\ UNCHANGED pongDue
  /\ UNCHANGED <<cmd, warned, pcH, pcOut, pcIn, fds, peerGone, inbox,
                 nSent, sent, doneCloses, proc, catBuf, outAll, nOut, outRead, tok,
                 inAll, inRead, wbuf, msgsRead, readLeft, readLate, graceLeft,
                 lingerLeft, signals, waitCalls, failed, outErr, inErr>>

\* case <-ticker.C: ws.WriteControl(websocket.PingMessage, ...); on an error
\* return it, and the deferred ticker.Stop() runs
PingTick ==
  /\ pcPing = "select"
  /\ pingLeft = 0
  /\ \E ok \in WriteResults :
       IF ok
       THEN /\ pongDue' = ~peerGone
            /\ pingLeft' = pingPeriod
            /\ UNCHANGED <<pcPing, pingErr>>
       ELSE /\ pingErr' = "failed to write control"
            /\ pcPing' = "returned"
            /\ pingLeft' = NoTime
            /\ UNCHANGED pongDue
  /\ UNCHANGED <<cmd, warned, pcH, pcOut, pcIn, fds, wsClosedBy, peerGone, inbox,
                 nSent, sent, doneCloses, proc, catBuf, outAll, nOut, outRead, tok,
                 inAll, inRead, wbuf, msgsRead, readLeft, readLate, graceLeft,
                 lingerLeft, signals, waitCalls, failed, outErr, inErr>>

\* case <-done: return nil; the deferred ticker.Stop() runs
PingDone ==
  /\ pcPing = "select"
  /\ doneCloses > 0
  /\ pingErr' = ""
  /\ pcPing' = "returned"
  /\ pingLeft' = NoTime
  /\ UNCHANGED <<cmd, warned, pcH, pcOut, pcIn, fds, wsClosedBy, peerGone, inbox,
                 nSent, sent, pongDue, doneCloses, proc, catBuf, outAll, nOut, outRead,
                 tok, inAll, inRead, wbuf, msgsRead, readLeft, readLate, graceLeft, lingerLeft, signals, waitCalls, failed, outErr, inErr>>

\* ---------------------------------------------------------------- pumpStdin
\* ws.SetReadLimit; ws.SetReadDeadline(time.Now().Add(pongWait)), which fails
\* on a closed connection; ws.SetPongHandler
InInit ==
  /\ pcIn = "init"
  /\ IF wsClosed
     THEN /\ inErr' = "failed to set read deadline"
          /\ wsClosedBy' = wsClosedBy \cup {"in"}
          /\ pcIn' = "returned"
          /\ UNCHANGED readLeft
     ELSE /\ readLeft' = pongWait
          /\ pcIn' = "read"
          /\ UNCHANGED <<inErr, wsClosedBy>>
  /\ UNCHANGED <<cmd, warned, readLate, pcH, pcOut, pcPing, fds, peerGone, inbox, nSent, sent,
                 pongDue, doneCloses, proc, catBuf, outAll, nOut, outRead, tok, inAll,
                 inRead, wbuf, msgsRead, pingLeft, graceLeft, lingerLeft, signals,
                 waitCalls, failed, outErr, pingErr>>

\* ws.ReadMessage() meets a pong: the pong handler sets the read deadline to
\* time.Now().Add(pongWait), and the read goes on
InReadPong ==
  /\ pcIn = "read"
  /\ ~wsClosed
  /\ Len(inbox) > 0
  /\ Head(inbox).t = "pong"
  /\ inbox' = Tail(inbox)
  /\ readLeft' = pongWait
  /\ readLate' = FALSE
  /\ UNCHANGED <<cmd, warned, pcH, pcOut, pcPing, pcIn, fds, wsClosedBy, peerGone,
                 nSent, sent, pongDue, doneCloses, proc, catBuf, outAll, nOut, outRead,
                 tok, inAll, inRead, wbuf, msgsRead, pingLeft, graceLeft,
                 lingerLeft, signals, waitCalls, failed, outErr, inErr, pingErr>>

\* InReadMsg without message = append(message, '\n')
InReadMsg_NoTerminator ==
  /\ pcIn = "read"
  /\ ~wsClosed
  /\ Len(inbox) > 0
  /\ Head(inbox).t = "text"
  /\ inbox' = Tail(inbox)
  /\ msgsRead' = Append(msgsRead, Head(inbox).d)
  /\ wbuf' = Head(inbox).d
  /\ pcIn' = "write"
  /\ UNCHANGED <<cmd, warned, pcH, pcOut, pcPing, fds, wsClosedBy, peerGone, nSent,
                 sent, pongDue, doneCloses, proc, catBuf, outAll, nOut, outRead, tok,
                 inAll, inRead, readLeft, readLate, pingLeft, graceLeft, lingerLeft,
                 signals, waitCalls, failed, outErr, inErr, pingErr>>

\* _, message, err := ws.ReadMessage() returns a message;
\* message = append(message, '\n')
InReadMsg ==
  /\ pcIn = "read"
  /\ ~wsClosed
  /\ Len(inbox) > 0
  /\ Head(inbox).t = "text"
  /\ inbox' = Tail(inbox)
  /\ msgsRead' = Append(msgsRead, Head(inbox).d)
  /\ wbuf' = Append(Head(inbox).d, LF)
  /\ pcIn' = "write"
  /\ UNCHANGED <<cmd, warned, pcH, pcOut, pcPing, fds, wsClosedBy, peerGone, nSent,
                 sent, pongDue, doneCloses, proc, catBuf, outAll, nOut, outRead, tok,
                 inAll, inRead, readLeft, readLate, pingLeft, graceLeft, lingerLeft,
                 signals, waitCalls, failed, outErr, inErr, pingErr>>

\* the errors ws.ReadMessage() can return now
ReadErrors ==
  (IF wsClosed THEN {"use of closed network connection"} ELSE {})
  \cup (IF peerGone /\ Len(inbox) = 0 THEN {"unexpected EOF"} ELSE {})
  \cup (IF readLeft = 0 THEN {"i/o timeout"} ELSE {})

\* InReadErr without the deferred ws.Close() of pumpStdin
InReadErr_NoDeferredClose ==
  /\ pcIn = "read"
  /\ ReadErrors # {}
  /\ inErr' = "failed to read message"
  /\ pcIn' = "returned"
  /\ readLeft' = NoTime
  /\ UNCHANGED <<cmd, warned, wsClosedBy, readLate, pcH, pcOut, pcPing, fds, peerGone, inbox, nSent, sent,
                 pongDue, doneCloses, proc, catBuf, outAll, nOut, outRead, tok, inAll,
                 inRead, wbuf, msgsRead, pingLeft, graceLeft,
                 lingerLeft, signals, waitCalls, failed, outErr, pingErr>>

\* ws.ReadMessage() returns an error: return it; the deferred ws.Close() runs
InReadErr ==
  /\ pcIn = "read"
  /\ ReadErrors # {}
  /\ inErr' = "failed to read message"
  /\ wsClosedBy' = wsClosedBy \cup {"in"}
  /\ pcIn' = "returned"
  /\ readLeft' = NoTime
  /\ UNCHANGED <<cmd, warned, readLate, pcH, pcOut, pcPing, fds, peerGone, inbox, nSent, sent,
                 pongDue, doneCloses, proc, catBuf, outAll, nOut, outRead, tok, inAll,
                 inRead, wbuf, msgsRead, pingLeft, graceLeft,
                 lingerLeft, signals, waitCalls, failed, outErr, pingErr>>

\* how many bytes the stdin pipe has room for
inRoom == StdinCap - Len(inBuf)

\* w.Write(message): the bytes the pipe has room for are written and the call
\* waits for room for the rest; it returns when all are written
InWrite ==
  /\ pcIn = "write"
  /\ inReaders # {}
  /\ inRoom > 0
  /\ LET k == IF Len(wbuf) <= inRoom THEN Len(wbuf) ELSE inRoom
     IN /\ inAll' = inAll \o SubSeq(wbuf, 1, k)
        /\ wbuf' = SubSeq(wbuf, k + 1, Len(wbuf))
        /\ pcIn' = IF k = Len(wbuf) THEN "read" ELSE "write"
  /\ UNCHANGED <<cmd, warned, pcH, pcOut, pcPing, fds, wsClosedBy, peerGone, inbox,
                 nSent, sent, pongDue, doneCloses, proc, catBuf, outAll, nOut, outRead,
                 tok, inRead, msgsRead, readLeft, readLate, pingLeft, graceLeft,
                 lingerLeft, signals, waitCalls, failed, outErr, inErr, pingErr>>

\* InWriteErr without the deferred ws.Close() of pumpStdin
InWriteErr_NoDeferredClose ==
  /\ pcIn = "write"
  /\ inReaders = {}
  /\ inErr' = "failed to write"
  /\ pcIn' = "returned"
  /\ readLeft' = NoTime
  /\ UNCHANGED <<cmd, warned, wsClosedBy, readLate, pcH, pcOut, pcPing, fds, peerGone, inbox, nSent, sent,
                 pongDue, doneCloses, proc, catBuf, outAll, nOut, outRead, tok, inAll,
                 inRead, wbuf, msgsRead, pingLeft, graceLeft,
                 lingerLeft, signals, waitCalls, failed, outErr, pingErr>>

\* w.Write(message) returns an error, the pipe having no reader left: return
\* it; the deferred ws.Close() runs
InWriteErr ==
  /\ pcIn = "write"
  /\ inReaders = {}
  /\ inErr' = "failed to write"
  /\ wsClosedBy' = wsClosedBy \cup {"in"}
  /\ pcIn' = "returned"
  /\ readLeft' = NoTime
  /\ UNCHANGED <<cmd, warned, readLate, pcH, pcOut, pcPing, fds, peerGone, inbox, nSent, sent,
                 pongDue, doneCloses, proc, catBuf, outAll, nOut, outRead, tok, inAll,
                 inRead, wbuf, msgsRead, pingLeft, graceLeft,
                 lingerLeft, signals, waitCalls, failed, outErr, pingErr>>

\* ---------------------------------------------------------------- the peer
\* the peer sends a text message
PeerSend ==
  /\ pcH # "returned"
  /\ ~peerGone
  /\ ~wsClosed
  /\ nSent + nOut < MaxData
  /\ \E m \in Messages : inbox' = Append(inbox, TextFrame(m))
  /\ nSent' = nSent + 1
  /\ UNCHANGED <<cmd, warned, pcH, pcOut, pcPing, pcIn, fds, wsClosedBy, peerGone,
                 sent, pongDue, doneCloses, proc, catBuf, outAll, nOut, outRead, tok,
                 inAll, inRead, wbuf, msgsRead, readLeft, readLate, pingLeft, graceLeft,
                 lingerLeft, signals, waitCalls, failed, outErr, inErr, pingErr>>

\* the peer answers a ping with a pong (pongs behind an unread pong are not
\* told apart from it)
PeerPong ==
  /\ pongDue
  /\ \A i \in 1..Len(inbox) : inbox[i].t # "pong"
  /\ ~peerGone
  /\ ~wsClosed
  /\ inbox' = Append(inbox, PongFrame)
  /\ pongDue' = FALSE
  /\ UNCHANGED <<cmd, warned, pcH, pcOut, pcPing, pcIn, fds, wsClosedBy, peerGone,
                 nSent, sent, doneCloses, proc, catBuf, outAll, nOut, outRead, tok,
                 inAll, inRead, wbuf, msgsRead, readLeft, readLate, pingLeft, graceLeft,
                 lingerLeft, signals, waitCalls, failed, outErr, inErr, pingErr>>

\* the peer closes the transport from its side
PeerClose ==
  /\ pcH # "returned"
  /\ ~peerGone
  /\ peerGone' = TRUE
  /\ UNCHANGED <<cmd, warned, pcH, pcOut, pcPing, pcIn, fds, wsClosedBy, inbox,
                 nSent, sent, pongDue, doneCloses, proc, catBuf, outAll, nOut, outRead,
                 tok, inAll, inRead, wbuf, msgsRead, readLeft, readLate, pingLeft,
                 graceLeft, lingerLeft, signals, waitCalls, failed, outErr, inErr,
                 pingErr>>

\* ---------------------------------------------------------------- the child
\* cat reads what its stdin holds
CatRead ==
  /\ cmd = "cat"
  /\ proc = "alive"
  /\ Len(catBuf) = 0
  /\ Len(inBuf) > 0
  /\ catBuf' = inBuf
  /\ inRead' = Len(inAll)
  /\ UNCHANGED <<cmd, warned, pcH, pcOut, pcPing, pcIn, fds, wsClosedBy, peerGone,
                 inbox, nSent, sent, pongDue, doneCloses, proc, outAll, nOut, outRead,
                 tok, inAll, wbuf, msgsRead, readLeft, readLate, pingLeft, graceLeft,
                 lingerLeft, signals, waitCalls, failed, outErr, inErr, pingErr>>

\* cat writes what it read to its stdout
CatWrite ==
  /\ cmd = "cat"
  /\ proc = "alive"
  /\ Len(catBuf) > 0
  /\ outAll' = outAll \o catBuf
  /\ catBuf' = <<>>
  /\ UNCHANGED <<cmd, warned, nOut, pcH, pcOut, pcPing, pcIn, fds, wsClosedBy, peerGone,
                 inbox, nSent, sent, pongDue, doneCloses, proc, outRead, tok,
                 inAll, inRead, wbuf, msgsRead, readLeft, readLate, pingLeft, graceLeft,
                 lingerLeft, signals, waitCalls, failed, outErr, inErr, pingErr>>

\* cat reads the end of its stdin, every write end being closed, and exits
CatEOF ==
  /\ cmd = "cat"
  /\ proc = "alive"
  /\ Len(catBuf) = 0
  /\ Len(inBuf) = 0
  /\ "inw" \notin fds
  /\ proc' = "dead"
  /\ UNCHANGED <<cmd, warned, pcH, pcOut, pcPing, pcIn, fds, wsClosedBy, peerGone,
                 inbox, nSent, sent, pongDue, doneCloses, catBuf, outAll, nOut,
                 outRead, tok, inAll, inRead, wbuf, msgsRead, readLeft, readLate,
                 pingLeft, graceLeft, lingerLeft, signals, waitCalls, failed,
                 outErr, inErr, pingErr>>

\* another program reads what its stdin holds
ChildRead ==
  /\ cmd = "other"
  /\ proc = "alive"
  /\ Len(inBuf) > 0
  /\ inRead' = Len(inAll)
  /\ UNCHANGED <<cmd, warned, pcH, pcOut, pcPing, pcIn, fds, wsClosedBy, peerGone,
                 inbox, nSent, sent, pongDue, doneCloses, proc, catBuf, outAll, nOut,
                 outRead, tok, inAll, wbuf, msgsRead, readLeft, readLate, pingLeft,
                 graceLeft, lingerLeft, signals, waitCalls, failed, outErr, inErr,
                 pingErr>>

\* another program writes to its stdout or stderr
ChildWrite ==
  /\ cmd = "other"
  /\ proc = "alive"
  /\ nSent + nOut < MaxData
  /\ \E c \in OutChunks : outAll' = outAll \o c
  /\ nOut' = nOut + 1
  /\ UNCHANGED <<cmd, warned, pcH, pcOut, pcPing, pcIn, fds, wsClosedBy, peerGone,
                 inbox, nSent, sent, pongDue, doneCloses, proc, catBuf, outRead,
                 tok, inAll, inRead, wbuf, msgsRead, readLeft, readLate, pingLeft,
                 graceLeft, lingerLeft, signals, waitCalls, failed, outErr, inErr,
                 pingErr>>

\* another program exits of its own accord
ChildExit ==
  /\ cmd = "other"
  /\ proc = "alive"
  /\ proc' = "dead"
  /\ UNCHANGED <<cmd, warned, pcH, pcOut, pcPing, pcIn, fds, wsClosedBy, peerGone,
                 inbox, nSent, sent, pongDue, doneCloses, catBuf, outAll, nOut,
                 outRead, tok, inAll, inRead, wbuf, msgsRead, readLeft, readLate,
                 pingLeft, graceLeft, lingerLeft, signals, waitCalls, failed,
                 outErr, inErr, pingErr>>

\* ---------------------------------------------------------------- time
\* the steps of each activity of the program
Handler ==
  \/ PipeOut \/ PipeIn \/ StartProcess \/ CloseChildEnds \/ GoPumps
  \/ CloseInw \/ Interrupt \/ SelectDone \/ SelectTimeout \/ WaitDone
  \/ Wait \/ Return

PumpStdout ==
  \/ OutScan \/ OutScanEOF \/ OutScanErr \/ OutWrite \/ OutCloseFrame
  \/ OutLingerEnd

Ping == PingStart \/ PingTick \/ PingDone

PumpStdin ==
  \/ InInit \/ InReadPong \/ InReadMsg \/ InReadErr \/ InWrite \/ InWriteErr

Program == Handler \/ PumpStdout \/ Ping \/ PumpStdin

\* the steps of cat
Cat == CatRead \/ CatWrite \/ CatEOF

\* the running timers: the read deadline while pumpStdin runs, the ticker of
\* ping, the grace timer of the select, the sleep of pumpStdout
Timers ==
  (IF pcIn \in {"read", "write"} THEN {readLeft} ELSE {})
  \cup (IF pcPing = "select" THEN {pingLeft} ELSE {})
  \cup (IF pcH = "select" THEN {graceLeft} ELSE {})
  \cup (IF pcOut = "linger" THEN {lingerLeft} ELSE {})

\* a timer's value after d seconds
After(left, d) == IF left = NoTime THEN NoTime ELSE IF left > d THEN left - d ELSE 0

\* time passes, up to the next expiry, while every activity of the program is
\* blocked and cat has nothing to do: their steps take no time.  A pong
\* comes at once or not at all: a ping not answered by then stays unanswered
Tick ==
  /\ ~ENABLED Program
  /\ ~ENABLED Cat
  /\ \E d \in Timers :
       /\ d > 0
       /\ \A u \in Timers : u > 0 => d <= u
       /\ readLeft' = After(readLeft, d)
       /\ pingLeft' = After(pingLeft, d)
       /\ graceLeft' = After(graceLeft, d)
       /\ lingerLeft' = After(lingerLeft, d)
  /\ readLate' = (readLate \/ (pcIn \in {"read", "write"} /\ readLeft = 0))
  /\ pongDue' = FALSE
  /\ UNCHANGED <<cmd, warned, pcH, pcOut, pcPing, pcIn, fds, wsClosedBy, peerGone,
                 inbox, nSent, sent, doneCloses, proc, catBuf, outAll, nOut,
                 outRead, tok, inAll, inRead, wbuf, msgsRead, signals, waitCalls,
                 failed, outErr, inErr, pingErr>>

\* ---------------------------------------------------------------- specifications
Next ==
  \/ PipeOut \/ PipeIn \/ StartProcess \/ CloseChildEnds \/ GoPumps
  \/ CloseInw \/ Interrupt \/ SelectDone \/ SelectTimeout \/ WaitDone
  \/ Wait \/ Return
  \/ OutScan \/ OutScanEOF \/ OutScanErr \/ OutWrite \/ OutCloseFrame
  \/ OutLingerEnd
  \/ PingStart \/ PingTick \/ PingDone
  \/ InInit \/ InReadPong \/ InReadMsg \/ InReadErr \/ InWrite \/ InWriteErr
  \/ PeerSend \/ PeerPong \/ PeerClose
  \/ CatRead \/ CatWrite \/ CatEOF
  \/ ChildRead \/ ChildWrite \/ ChildExit
  \/ Tick

Spec == Init /\ [][Next]_vars

\* the scheduler runs every goroutine that can take a step, time passes, and
\* cat goes on reading, writing and exiting; the peer and another program
\* are under no obligation
FairSpec ==
  /\ Spec
  /\ WF_vars(Handler)
  /\ WF_vars(PumpStdout)
  /\ WF_vars(Ping)
  /\ WF_vars(PumpStdin)
  /\ WF_vars(Cat)
  /\ WF_vars(Tick)

\* ---------------------------------------------------------------- claims
\* pumpStdout has left its scanning loop
OutLeftLoop == pcOut \in {"closeFrame", "linger", "returned"}

\* C1: in a session whose child was spawned, once pumpStdout has left its
\* loop, whichever way, stdoutDone has been closed exactly once.
C1_SignaledOnEveryExit == (proc # "none" /\ OutLeftLoop) => doneCloses = 1

\* C2: once the grace window has elapsed and the kill was sent, the wait for
\* stdoutDone ends and the coordinator goes on to reap the child and return.
\* (Stated for a kill that ended the child, or found it ended.)
C2_WaitAfterKillEnds == (pcH = "waitDone" /\ proc = "dead") ~> (pcH = "returned")

\* C3: with cat as the child, once the peer has closed the transport the
\* coordinator ends up returning, whatever cat still had to echo.
C3_CatSessionReturns == (cmd = "cat" /\ peerGone) ~> (pcH = "returned")

\* C4: stdoutDone is closed at most once, and only by the step of pumpStdout
\* that ends its loop at the end of the stream; no step of the coordinator,
\* of ping or of pumpStdin closes it.
C4_SoleSignalerOnce ==
  [][doneCloses' # doneCloses =>
       /\ doneCloses = 0
       /\ doneCloses' = 1
       /\ pcOut = "scan"
       /\ pcOut' = "closeFrame"
       /\ pcH' = pcH
       /\ pcPing' = pcPing
       /\ pcIn' = pcIn]_vars

\* ping and the coordinator have both observed the one close of stdoutDone
C4_Witness ==
  /\ doneCloses = 1
  /\ pcPing = "returned"
  /\ pingErr = ""
  /\ pcH = "returned"
  /\ signals = <<"int">>

\* C5: once stdoutDone is closed, the output pipe is at its end and empty, and
\* the text frames written are the tokens of everything the child wrote.
C5_DrainedWhenSignaled ==
  doneCloses > 0 =>
    /\ outEOF
    /\ Len(outBuf) = 0
    /\ pcOut # "write"
    /\ TextOf(sent) = Tokens(outAll)

\* stdoutDone is closed after two lines were forwarded
C5_Witness == doneCloses = 1 /\ Len(TextOf(sent)) = 2 /\ pcH = "select"

\* C6, as claimed: once the child has exited and pumpStdout has returned, the
\* text frames written are exactly the delimiter-terminated lines the child
\* wrote.
C6_FramesAreTheLines ==
  (proc = "dead" /\ pcOut = "returned") => TextOf(sent) = Lines(outAll)

\* C6, amended: the text frames written are always a prefix of the tokens of
\* the child's output (no frame missing before a later one, duplicated or out
\* of order); a frame for bytes with no line feed after them is written only
\* at the end of the stream; the frames are all the tokens once stdoutDone is
\* closed.
C6_FramesPrefixOfTokens ==
  proc # "none" =>
    /\ IsPrefix(TextOf(sent), Tokens(outAll))
    /\ (Len(TextOf(sent)) > Len(Lines(outAll)) => outEOF)
    /\ (OutLeftLoop /\ outErr \in {"-", ""} => TextOf(sent) = Tokens(outAll))

\* two lines, the second ended by CR LF, are forwarded in order
C6_Witness ==
  /\ outAll = <<"a", LF, "b", CR, LF>>
  /\ TextOf(sent) = << <<"a">>, <<"b">> >>

\* C7, as claimed: whenever pumpStdin is not in the middle of a write, the
\* bytes written to stdin are exactly the messages read, each followed by a
\* line feed.
C7_AllMessagesWritten ==
  pcIn \in {"read", "returned"} => inAll = Terminated(msgsRead)

\* C7, amended: the bytes written to stdin, followed by what the write in
\* progress (or the write that failed) has left, are the messages read in
\* order, each followed by one line feed; nothing is left when pumpStdin
\* reads, or has returned from a read.
C7_WrittenPrefixOfMessages ==
  /\ inAll \o wbuf = Terminated(msgsRead)
  /\ (pcIn = "read" \/ inErr = "failed to read message") => Len(wbuf) = 0

\* two different messages are in stdin, in the order read
C7_Witness ==
  /\ Len(msgsRead) = 2
  /\ msgsRead[1] # msgsRead[2]
  /\ inAll = Terminated(msgsRead)
  /\ pcIn = "read"

\* C8: time does not go on past the read deadline with pumpStdin still
\* running: by the end of the window it has returned.
C8_ReturnsByDeadline == pcIn \in {"read", "write"} => ~readLate

\* C9, as claimed: when handleWs has returned in a session whose child was
\* spawned, pumpStdin and pumpStdout have returned and proc.Wait was called.
C9_PumpsReturnedAtReturn ==
  (pcH = "returned" /\ proc # "none") =>
    /\ pcIn = "returned"
    /\ pcOut = "returned"
    /\ waitCalls = 1

\* C9, amended: when handleWs has returned in a session whose child was
\* spawned, pumpStdin has returned, pumpStdout has left its loop and closed
\* stdoutDone (it may still have the close frame to write or be sleeping),
\* the child has exited and proc.Wait was called once.
C9_LoopsEndedAtReturn ==
  (pcH = "returned" /\ proc # "none") =>
    /\ pcIn = "returned"
    /\ OutLeftLoop
    /\ doneCloses = 1
    /\ proc = "dead"
    /\ waitCalls = 1

\* handleWs has returned while pumpStdout sleeps
C9_Witness == pcH = "returned" /\ proc = "dead" /\ pcOut = "linger"

\* C10: once a pipe or the process could not be created, handleWs has
\* returned, no pump and no ping was started, no signal was sent, proc.Wait
\* was not called, and the "Internal server error." message was written
\* (or, the peer being gone, its write failed).
C10_SetupFailureAborts ==
  failed # "" =>
    /\ pcH = "returned"
    /\ pcOut = "idle"
    /\ pcPing = "idle"
    /\ pcIn = "idle"
    /\ signals = <<>>
    /\ waitCalls = 0
    /\ doneCloses = 0
    /\ (sent = <<TextFrame(IntErrMsg)>> \/ (sent = <<>> /\ peerGone))

\* the spawn failed and the message reached the transport
C10_Witness == failed = "start:" /\ sent = <<TextFrame(IntErrMsg)>>

\* C11: whenever pumpStdout has returned, with nil or with an error, it has
\* closed the transport, and whenever pumpStdin has returned it has closed the
\* transport.
C11_PumpClosedTransportOnExit ==
  /\ (pcOut = "returned" => "out" \in wsClosedBy)
  /\ (pcIn = "returned" => "in" \in wsClosedBy)
  /\ (outErr # "-" <=> pcOut = "returned")
  /\ (inErr # "-" <=> pcIn = "returned")

\* pumpStdout has returned nil after its sleep and pumpStdin with a read error
C11_Witness ==
  /\ pcOut = "returned"
  /\ outErr = ""
  /\ pcIn = "returned"
  /\ inErr = "failed to read message"
  /\ wsClosedBy = {"out", "in", "h"}

\* C12: once pumpStdout has returned while pumpStdin is running, pumpStdin
\* ends up returning and the coordinator goes on to close inw and to send the
\* interrupt.
C12_OutExitEndsInputPump ==
  (pcOut = "returned" /\ pcIn \in {"init", "read", "write"})
    ~> (pcIn = "returned" /\ "inw" \notin fds /\ signals # <<>>)

\* C13: the coordinator closes inw only after pumpStdin has returned; it sends
\* the interrupt after that, as its first signal, and on every path that gets
\* past that point, whether or not the child has already exited; it calls
\* proc.Wait at most once, and only after stdoutDone was closed and the
\* interrupt sent.
C13_ShutdownOrder ==
  /\ (proc # "none" /\ "inw" \notin fds) => pcIn = "returned"
  /\ signals # <<>> => (pcIn = "returned" /\ "inw" \notin fds /\ signals[1] = "int")
  /\ pcH \in {"select", "waitDone", "wait", "return"} => signals # <<>>
  /\ (pcH = "returned" /\ proc # "none") => signals # <<>>
  /\ pcH \in {"wait", "return"} => doneCloses > 0
  /\ waitCalls <= 1
  /\ waitCalls = 1 => (doneCloses > 0 /\ signals # <<>> /\ pcH \in {"return", "returned"})

\* a session of cat that read a message: the interrupt was sent, stdoutDone
\* was closed within the second, and the child was reaped once
C13_Witness ==
  /\ cmd = "cat"
  /\ signals = <<"int">>
  /\ waitCalls = 1
  /\ doneCloses = 1
  /\ msgsRead # <<>>

\* C14: the kill is sent only by the coordinator in its select, with the
\* second of time.After over and the interrupt already sent, and at most
\* once; a coordinator that received from stdoutDone in the select has sent
\* no kill and sends none.
C14_KillOnlyAfterGrace ==
  /\ []("kill" \in {signals[i] : i \in 1..Len(signals)} =>
          (signals = <<"int", "kill">> /\ graceLeft = 0))
  /\ []((proc # "none" /\ pcH \in {"wait", "return", "returned"} /\ graceLeft = NoTime)
          => signals = <<"int">>)
  /\ [][signals' # signals /\ signals # <<>> =>
          /\ signals = <<"int">>
          /\ signals' = <<"int", "kill">>
          /\ pcH = "select"
          /\ graceLeft = 0
          /\ pcH' = "waitDone"]_vars

\* the second went by without stdoutDone closed and the kill was sent
C14_Witness ==
  /\ signals = <<"int", "kill">>
  /\ pcH = "waitDone"
  /\ graceLeft = 0
  /\ doneCloses = 0

\* the frames written to the transport so far
Frames == {sent[i] : i \in 1..Len(sent)}

\* C15, as claimed: a pumpStdout that closed stdoutDone and has returned
\* (which closes the transport) has slept the close grace period through
\* after its attempt to write the close frame.
C15_LingersBeforeClose ==
  (doneCloses = 1 /\ pcOut = "returned") => lingerLeft = 0

\* C15, amended: pumpStdout closes stdoutDone before it attempts the close
\* frame; the attempt succeeds when the transport is open and the peer
\* there; only after a successful attempt does it sleep the close grace
\* period, and then close the transport; after a failed attempt it closes
\* the transport at once, with no close frame written and no sleep.
C15_SignalCloseFrameLingerClose ==
  /\ [](pcOut \in {"closeFrame", "linger"} => (doneCloses = 1 /\ "out" \notin wsClosedBy))
  /\ [](pcOut = "closeFrame" => CloseFrame \notin Frames)
  /\ [](pcOut = "linger" => (CloseFrame \in Frames /\ lingerLeft # NoTime))
  /\ []((doneCloses = 1 /\ pcOut = "returned") =>
          \/ (outErr = "" /\ CloseFrame \in Frames /\ lingerLeft = 0)
          \/ (outErr = "failed to write message" /\ CloseFrame \notin Frames
                /\ lingerLeft = NoTime))
  /\ [][(pcOut = "closeFrame" /\ pcOut' # pcOut /\ ~wsClosed /\ ~peerGone) =>
          (pcOut' = "linger" /\ sent' = Append(sent, CloseFrame)
            /\ lingerLeft' = closeGracePeriod)]_vars
  /\ [][(pcOut = "linger" /\ pcOut' # pcOut) => lingerLeft = 0]_vars

\* the child exited right after its launch, having written nothing, and
\* pumpStdout closed stdoutDone, wrote the close frame, slept and returned
C15_Witness ==
  /\ outAll = <<>>
  /\ msgsRead = <<>>
  /\ doneCloses = 1
  /\ sent = <<CloseFrame>>
  /\ pcOut = "returned"
  /\ outErr = ""

\* C16: when the write of a text frame fails, pumpStdout returns in that
\* step: the frame is not written, stdoutDone is not closed, the transport
\* is closed by the pump, and the rest of the output stays unread; after
\* that the pump writes no frame, text or close, and never closes
\* stdoutDone.
C16_WriteErrorStopsPump ==
  /\ [][(pcOut = "write" /\ pcOut' # pcOut /\ pcOut' # "scan") =>
          /\ pcOut' = "returned"
          /\ outErr' = "failed to write message"
          /\ sent' = sent
          /\ doneCloses' = doneCloses
          /\ "out" \in wsClosedBy'
          /\ outRead' = outRead]_vars
  /\ [][pcOut = "returned" =>
          /\ pcOut' = "returned"
          /\ sent' = sent
          /\ doneCloses' = doneCloses
          /\ outRead' = outRead]_vars
  /\ []((pcOut = "returned" /\ outErr = "failed to write message" /\ doneCloses = 0) =>
          /\ "out" \in wsClosedBy
          /\ CloseFrame \notin Frames
          /\ IsPrefix(TextOf(sent), Tokens(outAll))
          /\ Len(TextOf(sent)) < Len(Tokens(outAll)))

\* the write of the first of two lines failed: nothing was forwarded and the
\* second line stays in the pipe
C16_Witness ==
  /\ pcOut = "returned"
  /\ outErr = "failed to write message"
  /\ doneCloses = 0
  /\ sent = <<>>
  /\ Len(outBuf) > 0
  /\ IndexLF(outBuf) > 0

\* C17: once stdoutDone is closed ping ends up returning; a failed write of a
\* ping makes it return in that step; it returns in no other case; and the
\* step in which it returns leaves the transport open or closed as it was,
\* stdoutDone, the pipe ends, the child, the signals sent and the frames
\* written untouched.
C17_PingStopsAndTouchesNothing ==
  /\ (doneCloses > 0) ~> (pcPing = "returned")
  /\ [][pingErr' # pingErr => (pcPing = "select" /\ pcPing' = "returned")]_vars
  /\ [](pcPing = "returned" =>
          \/ (pingErr = "" /\ doneCloses > 0)
          \/ pingErr = "failed to write control")
  /\ [][(pcPing' = "returned" /\ pcPing # "returned") =>
          UNCHANGED <<wsClosedBy, doneCloses, fds, proc, signals, waitCalls,
                      sent, inAll, outRead>>]_vars

\* the write of a ping failed, the peer being gone, and ping returned while
\* nobody had closed the transport
C17_Witness ==
  /\ pcPing = "returned"
  /\ pingErr = "failed to write control"
  /\ wsClosedBy = {}
  /\ doneCloses = 0

\* C18: whenever a pump or ping has been started, the parent holds neither
\* outw nor inr; so, once the child has exited, the output pipe has no writer
\* left, s.Scan() does not block, and with the pipe drained it reports the
\* end of the stream.
C18_ChildEndsClosedBeforePumps ==
  /\ (pcOut # "idle" \/ pcIn # "idle" \/ pcPing # "idle") =>
        ("outw" \notin fds /\ "inr" \notin fds /\ proc # "none")
  /\ (pcOut # "idle" /\ proc = "dead") => outEOF
  /\ (pcOut = "scan" /\ proc = "dead") => ENABLED (OutScan \/ OutScanEOF \/ OutScanErr)
  /\ (pcOut = "scan" /\ proc = "dead" /\ Len(outBuf) = 0) => ENABLED OutScanEOF

\* the child has exited while the coordinator is still in pumpStdin, holding
\* outr and inw, and pumpStdout has seen the end of the stream
C18_Witness ==
  /\ proc = "dead"
  /\ pcH = "pumpStdin"
  /\ fds = {"outr", "inw"}
  /\ pcOut = "closeFrame"
  /\ doneCloses = 1

\* handleWs has returned with every pipe end and the transport closed
CleanedUp == pcH = "returned" /\ fds = {} /\ "h" \in wsClosedBy

\* C19: a coordinator that has logged a failed signal or a failed wait ends
\* up returned with every pipe end and the transport closed.  (Stated for the
\* sessions in which pumpStdout does not return without closing stdoutDone,
\* which stops the coordinator whatever the signals did.)
C19_FailuresDoNotStopCleanup ==
  (warned # {}) ~> (CleanedUp \/ (pcOut = "returned" /\ doneCloses = 0))

\* C20: the close frame is written only by pumpStdout after it closed
\* stdoutDone, with the transport not yet closed on this side and pumpStdin
\* not yet returned; once pumpStdin has returned no close frame is written.
C20_CloseFrameOnlyWhileOpen ==
  /\ [][(CloseFrame \notin Frames /\ CloseFrame \in Frames') =>
          /\ pcOut = "closeFrame"
          /\ doneCloses = 1
          /\ ~wsClosed
          /\ pcIn # "returned"
          /\ pcH \in {"go", "pumpStdin"}]_vars
  /\ [][pcIn = "returned" => (CloseFrame \in Frames' <=> CloseFrame \in Frames)]_vars
  /\ []((CloseFrame \in Frames) => (doneCloses = 1 /\ pcOut \in {"linger", "returned"}))

\* pumpStdin returned first, on a read error; pumpStdout then reached the end
\* of the stream, closed stdoutDone, and its write of the close frame failed
C20_Witness ==
  /\ inErr = "failed to read message"
  /\ doneCloses = 1
  /\ pcOut = "returned"
  /\ outErr = "failed to write message"
  /\ CloseFrame \notin Frames
  /\ ~peerGone

====
